---- MODULE Spec2Model ----
(***************************************************************************)
(* eStick simulator: the array-simulation convolution engine (Beamformer)  *)
(* and the plugin processor (EstickSimAudioProcessor) that drives it.      *)
(*                                                                         *)
(* Sample values are exact numbers.  A FIR tap is stored as an integer     *)
(* count of 1/TapUnit, so that the exponential blend of setParams is exact *)
(* for every sequence of updates the model allows.  The frequency-domain   *)
(* buffers hold a discrete Fourier transform over the prime field Z_FieldP *)
(* (a number-theoretic transform): it has the algebra of juce::dsp::FFT    *)
(* (linearity, convolution theorem, circular wrap at fftSize) without the  *)
(* rounding of floating point.                                             *)
(***************************************************************************)
EXTENDS Integers, Sequences, FiniteSets, TLC

\* ---------------------------------------------------------------- bounds
NUM_SOURCES == 2
\* microphones of one eStick (16 in the program, scaled down)
MicsPerStick == 1
\* filter length reported by the coefficient synthesizer
FirLenBound == 4
\* block size the host announces in prepareToPlay
BlockSize == 2
\* number of setParams calls after which a run stops updating the filters
MaxUpdates == 2
\* number of blocks after which a streaming run stops
MaxBlocks == 3
\* number of host calls (prepareToPlay, releaseResources, parameter changes)
\* after which the message thread stops calling
MaxHostCalls == 2

\* ---------------------------------------------------------------- arithmetic
RECURSIVE Pow(_, _)
Pow(b, e) == IF e = 0 THEN 1 ELSE b * Pow(b, e - 1)

RECURSIVE CeilLog2(_)
\* ceil(log2(n)) for n >= 1
CeilLog2(n) == IF n <= 1 THEN 0 ELSE 1 + CeilLog2((n + 1) \div 2)

RECURSIVE SumTo(_, _)
\* f[0] + ... + f[n-1]
SumTo(f, n) == IF n = 0 THEN 0 ELSE f[n - 1] + SumTo(f, n - 1)

Min(a, b) == IF a < b THEN a ELSE b

\* ---------------------------------------------------------------- juce::dsp::FFT
\* the field of the transform and a generator of its multiplicative group
FieldP == 3 * 4096 + 1
FieldG == 10 + 1

RECURSIVE PowMod(_, _)
\* b^e in the field, by squaring
PowMod(b, e) ==
    IF e = 0 THEN 1
    ELSE LET h == PowMod(b, e \div 2)
             s == (h * h) % FieldP
         IN IF e % 2 = 1 THEN (s * b) % FieldP ELSE s

\* a primitive n-th root of unity, n a power of two dividing FieldP - 1
RootOfUnity(n) == PowMod(FieldG, (FieldP - 1) \div n)

\* the inverse of x in the field (Fermat)
InvMod(x) == PowMod(x, FieldP - 2)

\* a signed sample as a field element, and back (centred residue)
Encode(v) == v % FieldP
Decode(x) == IF 2 * x > FieldP THEN x - FieldP ELSE x

\* the powers of the primitive n-th root of unity: Twiddle(n)[i] = w^i
Twiddle(n) == LET w == RootOfUnity(n) IN [i \in 0..(n - 1) |-> PowMod(w, i)]

\* the transforms the model uses are of one size per engine; the tables of
\* the sizes in FftSizes are computed once
FftSizes == {1, 2, 4, 8, 16, 32}
TwiddleTable == [n \in FftSizes |-> Twiddle(n)]
InverseSize == [n \in FftSizes |-> InvMod(n)]

RECURSIVE DotMod(_, _, _, _, _, _)
\* sum over j < i of x[j] * tw[(sign * j * k) mod n], in the field
DotMod(x, tw, k, n, sign, i) ==
    IF i = 0 THEN 0
    ELSE (DotMod(x, tw, k, n, sign, i - 1)
            + x[i - 1] * tw[(sign * (i - 1) * k) % n]) % FieldP

\* forward transform of n time samples (field elements) x[0..n-1]
PerformForward(x, n) ==
    LET tw == TwiddleTable[n]
    IN [k \in 0..(n - 1) |-> DotMod(x, tw, k, n, 1, n)]

\* inverse transform of n frequency bins
PerformInverse(y, n) ==
    LET tw == TwiddleTable[n]
        ninv == InverseSize[n]
    IN [j \in 0..(n - 1) |-> (ninv * DotMod(y, tw, j, n, -1, n)) % FieldP]

\* ---------------------------------------------------------------- AudioBufferFFT
\* one channel of time samples staged in a buffer of fftSize samples: the
\* leading samples are copied, the rest is zero
SetTimeSeries(time, len, fftSize) ==
    [i \in 0..(fftSize - 1) |-> IF i < len THEN Encode(time[i]) ELSE 0]

\* forward-transform a staged channel
PrepareForConvolution(staged, fftSize) == PerformForward(staged, fftSize)

\* frequency-domain product of an input channel and a filter channel, then
\* the inverse transform: the scratch channel holds the convolution in time
Convolve(inCh, filterCh, fftSize) ==
    PerformInverse([k \in 0..(fftSize - 1) |-> (inCh[k] * filterCh[k]) % FieldP], fftSize)

\* accumulate (add, not overwrite) a scratch channel into a time-domain channel
AddToTimeSeries(convCh, dstCh, fftSize) ==
    [i \in DOMAIN dstCh |-> IF i < fftSize THEN dstCh[i] + Decode(convCh[i]) ELSE dstCh[i]]

\* ---------------------------------------------------------------- eStickSimDefs.h
MicConfigs == {"ULA_1ESTICK", "ULA_2ESTICK"}

\* ---------------------------------------------------------------- BeamformingAlgorithms
\* denominator of the blend ratio; a tap is a multiple of 1/TapUnit
AlphaDen == 2 + 2
TapUnit == Pow(AlphaDen, MaxUpdates)

\* the parameters of one beam: direction of arrival and level
Doas == {0, 1}
BeamParameters == [doaX : Doas, doaY : {0}, level : {0}]

\* DAS::FarfieldURA::getFirLen
GetFirLen == FirLenBound

\* the taps the synthesizer computes for a direction, microphone micIdx:
\* direction 0 gives a unit impulse delayed by the microphone's position,
\* direction d >= 1 a comb of unit taps with period d
ComputedFir(params, micIdx, firLen) ==
    [t \in 0..(firLen - 1) |->
        IF params.doaX = 0
        THEN (IF t = micIdx % firLen THEN TapUnit ELSE 0)
        ELSE (IF t % params.doaX = 0 THEN TapUnit ELSE 0)]

\* DAS::FarfieldURA::getFir: newTap = alpha*computedTap + (1-alpha)*oldTap,
\* for every tap of every microphone channel
AlgGetFir(fir, params, alpha, numMic, firLen) ==
    [m \in 0..(numMic - 1) |->
        LET c == ComputedFir(params, m, firLen)
        IN [t \in 0..(firLen - 1) |->
              (alpha.num * c[t] + (alpha.den - alpha.num) * fir[m][t]) \div alpha.den]]

\* ---------------------------------------------------------------- Beamformer
SampleRates == {1, 2}

\* alpha = 1 - exp(-(maximumExpectedSamplesPerBlock / sampleRate) / firUpdateTimeConst):
\* strictly inside (0,1), smaller for a shorter block duration
FirUpdateAlpha(sampleRate, samplesPerBlock) ==
    [num |-> IF sampleRate = 1 THEN 2 ELSE 1, den |-> AlphaDen]

\* the switch over the microphone configuration
NumMicOf(mic) ==
    CASE mic = "ULA_1ESTICK" -> MicsPerStick
      [] mic = "ULA_2ESTICK" -> 2 * MicsPerStick
NumRowsOf(mic) ==
    CASE mic = "ULA_1ESTICK" -> 1
      [] mic = "ULA_2ESTICK" -> 1

\* a transform sized for the block alone, without room for the filter tail
FftSizeOfBlock(firLen, samplesPerBlock) == Pow(2, CeilLog2(samplesPerBlock))

\* juce::dsp::FFT(order): the transform size
FftSize(firLen, samplesPerBlock) == Pow(2, CeilLog2(firLen + samplesPerBlock - 1))

\* the content of a channel that is allocated and not cleared: no number;
\* the engine writes such a channel before it reads it
Uninitialized == "uninitialized"

ZeroChannel(n) == [i \in 0..(n - 1) |-> 0]

\* Beamformer::Beamformer
BeamformerNew(numSources_, mic, sampleRate_, maximumExpectedSamplesPerBlock_) ==
    LET numMic == NumMicOf(mic)
        firLen == GetFirLen
        fftSize == FftSize(firLen, maximumExpectedSamplesPerBlock_)
    IN [numSources |-> numSources_,
        micConfig |-> mic,
        sampleRate |-> sampleRate_,
        maximumExpectedSamplesPerBlock |-> maximumExpectedSamplesPerBlock_,
        alpha |-> FirUpdateAlpha(sampleRate_, maximumExpectedSamplesPerBlock_),
        numMic |-> numMic,
        numRows |-> NumRowsOf(mic),
        firLen |-> firLen,
        fft |-> fftSize,
        firIR |-> [s \in 0..(numSources_ - 1) |-> [m \in 0..(numMic - 1) |-> ZeroChannel(firLen)]],
        firFFT |-> [s \in 0..(numSources_ - 1) |-> [m \in 0..(numMic - 1) |-> ZeroChannel(fftSize)]],
        inputBuffer |-> [s \in 0..(numSources_ - 1) |-> Uninitialized],
        convolutionBuffer |-> Uninitialized,
        outBuffer |-> [m \in 0..(numMic - 1) |-> ZeroChannel(fftSize)]]

\* setParams that replaces the filter at once instead of blending with alpha
SetParamsHardReplace(bf, srcIdx, params) ==
    LET fir == AlgGetFir(bf.firIR[srcIdx], params, [num |-> 1, den |-> 1], bf.numMic, bf.firLen)
        spectrum == [m \in 0..(bf.numMic - 1) |->
                       PrepareForConvolution(SetTimeSeries(fir[m], bf.firLen, bf.fft), bf.fft)]
    IN [bf EXCEPT !.firIR[srcIdx] = fir, !.firFFT[srcIdx] = spectrum]

\* setParams that updates the taps and leaves the spectrum as it was
SetParamsStaleSpectrum(bf, srcIdx, params) ==
    [bf EXCEPT !.firIR[srcIdx] =
        AlgGetFir(bf.firIR[srcIdx], params, bf.alpha, bf.numMic, bf.firLen)]

\* Beamformer::setParams
SetParamsOp(bf, srcIdx, params) ==
    LET fir == AlgGetFir(bf.firIR[srcIdx], params, bf.alpha, bf.numMic, bf.firLen)
        spectrum == [m \in 0..(bf.numMic - 1) |->
                       PrepareForConvolution(SetTimeSeries(fir[m], bf.firLen, bf.fft), bf.fft)]
    IN [bf EXCEPT !.firIR[srcIdx] = fir, !.firFFT[srcIdx] = spectrum]

\* an audio buffer: numChannels channels of numSamples samples
AudioBuffer(numChannels, numSamples, data) ==
    [numChannels |-> numChannels, numSamples |-> numSamples, data |-> data]

\* AudioBufferFFT::setTimeSeries followed by prepareForConvolution, all channels
InputSpectrum(bf, inBuffer) ==
    [s \in 0..(bf.numSources - 1) |->
        IF s < inBuffer.numChannels
        THEN PrepareForConvolution(
                 SetTimeSeries(inBuffer.data[s], inBuffer.numSamples, bf.fft), bf.fft)
        ELSE ZeroChannel(bf.fft)]

\* the loop body that overwrites the accumulator channel instead of adding
ConvolveAndOverwrite(bf, srcIdx, outCh) ==
    LET conv == Convolve(bf.inputBuffer[srcIdx], bf.firFFT[srcIdx][outCh], bf.fft)
    IN [bf EXCEPT !.convolutionBuffer = conv,
                  !.outBuffer[outCh] = [i \in DOMAIN bf.outBuffer[outCh] |-> Decode(conv[i])]]

\* the loop body with every source convolved with the filter of source 0
ConvolveAndAddFirstFilter(bf, srcIdx, outCh) ==
    LET conv == Convolve(bf.inputBuffer[srcIdx], bf.firFFT[0][outCh], bf.fft)
    IN [bf EXCEPT !.convolutionBuffer = conv,
                  !.outBuffer[outCh] = AddToTimeSeries(conv, bf.outBuffer[outCh], bf.fft)]

\* the body of the two loops of processBlock for one (srcIdx, outCh)
ConvolveAndAdd(bf, srcIdx, outCh) ==
    LET conv == Convolve(bf.inputBuffer[srcIdx], bf.firFFT[srcIdx][outCh], bf.fft)
    IN [bf EXCEPT !.convolutionBuffer = conv,
                  !.outBuffer[outCh] = AddToTimeSeries(conv, bf.outBuffer[outCh], bf.fft)]

RECURSIVE ProcessLoop(_, _, _)
\* the loops of processBlock from (srcIdx, outCh) on
ProcessLoop(bf, srcIdx, outCh) ==
    IF srcIdx >= bf.numSources THEN bf
    ELSE IF outCh >= bf.numMic THEN ProcessLoop(bf, srcIdx + 1, 0)
    ELSE ProcessLoop(ConvolveAndAdd(bf, srcIdx, outCh), srcIdx, outCh + 1)

\* Beamformer::processBlock
ProcessBlockOp(bf, inBuffer) ==
    ProcessLoop([bf EXCEPT !.inputBuffer = InputSpectrum(bf, inBuffer)], 0, 0)

\* the shift without the clear of the tail
ShiftChannelNoClear(ch, len, numSplsOut) ==
    LET numSplsShift == len - numSplsOut
    IN [i \in 0..(len - 1) |-> IF i < numSplsShift THEN ch[i + numSplsOut] ELSE ch[i]]

\* the shift of one accumulator channel: copy numSplsShift samples from
\* offset numSplsOut to the start (FloatVectorOperations::copy, taken to copy
\* in ascending order where source and destination overlap), then clear
\* from numSplsShift to the end
ShiftChannel(ch, len, numSplsOut) ==
    LET numSplsShift == len - numSplsOut
    IN [i \in 0..(len - 1) |-> IF i < numSplsShift THEN ch[i + numSplsOut] ELSE 0]

\* Beamformer::getOutput: the engine and the destination after the call
GetOutputOp(bf, dst) ==
    LET numSplsOut == dst.numSamples
        len == bf.fft
        n == Min(bf.numMic, dst.numChannels)
    IN [bf |-> [bf EXCEPT !.outBuffer =
                   [m \in 0..(bf.numMic - 1) |->
                       IF m < n THEN ShiftChannel(bf.outBuffer[m], len, numSplsOut)
                       ELSE bf.outBuffer[m]]],
        dst |-> [dst EXCEPT !.data =
                   [c \in 0..(dst.numChannels - 1) |->
                       IF c < n THEN [i \in 0..(numSplsOut - 1) |-> bf.outBuffer[c][i]]
                       ELSE dst.data[c]]]]

\* ---------------------------------------------------------------- state
VARIABLES
    beamformer,   \* the engine: NoEngine or a Beamformer
    last,         \* the last engine call: its arguments and the engine before it
    calls,        \* the engine calls made so far
    stream,       \* the samples passed to processBlock and fetched by getOutput
    proc,         \* the plugin processor: the fields of EstickSimAudioProcessor
    parameters,   \* the values of the plugin parameters
    audio,        \* the audio thread: its place in processBlock and its locals
    message       \* the message thread: its place in a host call

vars == <<beamformer, last, calls, stream, proc, parameters, audio, message>>
plugin == <<proc, parameters, audio, message>>

NoEngine == [numSources |-> 0]

\* the plugin variables of a run that drives the engine directly
NoPlugin == [resourcesAllocated |-> FALSE]
NoThread == [pc |-> "none"]

\* the input channels a caller passes: silence, a unit impulse on the first
\* sample, a unit impulse on the last sample
Impulse(n, at) == [i \in 0..(n - 1) |-> IF i = at THEN 1 ELSE 0]
InputChannels(n) == {ZeroChannel(n), Impulse(n, 0), Impulse(n, n - 1)}
InputBuffers(n) ==
    {AudioBuffer(NUM_SOURCES, n, d) : d \in [0..(NUM_SOURCES - 1) -> InputChannels(n)]}

\* a cleared destination of numChannels channels and numSamples samples
ClearedBuffer(numChannels, numSamples) ==
    AudioBuffer(numChannels, numSamples,
                [c \in 0..(numChannels - 1) |-> ZeroChannel(numSamples)])

NoCall == [op |-> "none"]

\* the streams before the first block: nothing passed, nothing fetched
NoStream == [blocks |-> 0, in |-> <<>>, out |-> <<>>]

\* the sequence sq followed by the n samples of the channel ch
AppendChannel(sq, ch, n) ==
    [i \in 1..(Len(sq) + n) |-> IF i <= Len(sq) THEN sq[i] ELSE ch[i - Len(sq) - 1]]

\* the record of one engine call
Call(op, bf, args, dst) ==
    [op |-> op, args |-> args, dst |-> dst,
     firIR |-> bf.firIR, firFFT |-> bf.firFFT, outBuffer |-> bf.outBuffer]

\* ---------------------------------------------------------------- one block through the engine
\* The caller updates the filters, then passes one block to processBlock and
\* in the end fetches it with getOutput ("to be called after
\* Beamformer::processBlock"), into a destination of any number of samples
\* that fits and of one channel less than, as many as, or one more than the
\* microphones.
Init ==
    /\ \E mic \in MicConfigs, fs \in SampleRates :
          beamformer = BeamformerNew(NUM_SOURCES, mic, fs, BlockSize)
    /\ last = NoCall
    /\ calls = [updates |-> 0, processed |-> FALSE, delivered |-> FALSE, faulted |-> FALSE]
    /\ stream = NoStream
    /\ proc = NoPlugin
    /\ parameters = NoPlugin
    /\ audio = NoThread
    /\ message = NoThread

SetParams(srcIdx, params) ==
    /\ calls.updates < MaxUpdates
    /\ ~calls.processed
    /\ beamformer' = SetParamsOp(beamformer, srcIdx, params)
    /\ last' = Call("setParams", beamformer, [srcIdx |-> srcIdx, params |-> params], NoCall)
    /\ calls' = [calls EXCEPT !.updates = @ + 1]
    /\ UNCHANGED stream
    /\ UNCHANGED plugin

ProcessBlock(inBuffer) ==
    /\ ~calls.processed
    /\ beamformer' = ProcessBlockOp(beamformer, inBuffer)
    /\ last' = Call("processBlock", beamformer, inBuffer, NoCall)
    /\ calls' = [calls EXCEPT !.processed = TRUE]
    /\ UNCHANGED stream
    /\ UNCHANGED plugin

GetOutput(numChannels, numSamples) ==
    /\ calls.processed
    /\ ~calls.delivered
    /\ LET r == GetOutputOp(beamformer, ClearedBuffer(numChannels, numSamples))
       IN /\ beamformer' = r.bf
          /\ last' = Call("getOutput", beamformer,
                          [numChannels |-> numChannels, numSamples |-> numSamples], r.dst)
    /\ calls' = [calls EXCEPT !.delivered = TRUE]
    /\ UNCHANGED stream
    /\ UNCHANGED plugin

Next ==
    \/ \E srcIdx \in 0..(NUM_SOURCES - 1), params \in BeamParameters : SetParams(srcIdx, params)
    \/ \E inBuffer \in InputBuffers(BlockSize) : ProcessBlock(inBuffer)
    \/ \E numChannels \in (beamformer.numMic - 1)..(beamformer.numMic + 1),
          numSamples \in 0..beamformer.fft :
          GetOutput(numChannels, numSamples)

Spec == Init /\ [][Next]_vars

\* ---------------------------------------------------------------- calls with mismatched sizes
\* The caller of the engine-level run may also pass a block one sample
\* longer than maximumExpectedSamplesPerBlock (it still fits the transform),
\* or a destination one sample longer than the accumulator.  In getOutput
\* the latter makes numSplsShift negative: copyFrom reads past the end of
\* the accumulator channel and the copy is asked for a negative number of
\* samples, which no build survives.
GetOutputTooLong(numChannels) ==
    /\ calls.processed
    /\ ~calls.delivered
    /\ last' = Call("getOutput", beamformer,
                    [numChannels |-> numChannels, numSamples |-> beamformer.fft + 1], NoCall)
    /\ calls' = [calls EXCEPT !.delivered = TRUE, !.faulted = TRUE]
    /\ UNCHANGED <<beamformer, stream>>
    /\ UNCHANGED plugin

NextMisuse ==
    \/ Next
    \/ \E inBuffer \in InputBuffers(BlockSize + 1) : ProcessBlock(inBuffer)
    \/ \E numChannels \in 1..beamformer.numMic : GetOutputTooLong(numChannels)

SpecMisuse == Init /\ [][NextMisuse]_vars

\* ---------------------------------------------------------------- a stream of blocks
\* The caller applies the parameters of every source once, as the loop of
\* the audio callback does, and then passes block after block: processBlock
\* and getOutput as a pair, once per block, the destination holding one
\* block for every microphone.
StreamChannels(n) == {ZeroChannel(n), Impulse(n, 0)}
StreamBuffers(n) ==
    {AudioBuffer(NUM_SOURCES, n, d) : d \in [0..(NUM_SOURCES - 1) -> StreamChannels(n)]}

RECURSIVE SetAllParamsOp(_, _, _)
\* setParams for the sources srcIdx, srcIdx + 1, ... in turn
SetAllParamsOp(bf, params, srcIdx) ==
    IF srcIdx >= bf.numSources THEN bf
    ELSE SetAllParamsOp(SetParamsOp(bf, srcIdx, params[srcIdx]), params, srcIdx + 1)

StreamSetParams(params) ==
    /\ calls.updates = 0
    /\ beamformer' = SetAllParamsOp(beamformer, params, 0)
    /\ last' = Call("setAllParams", beamformer, params, NoCall)
    /\ calls' = [calls EXCEPT !.updates = beamformer.numSources]
    /\ stream' = [blocks |-> 0,
                  in |-> [s \in 0..(beamformer.numSources - 1) |-> <<>>],
                  out |-> [m \in 0..(beamformer.numMic - 1) |-> <<>>]]
    /\ UNCHANGED plugin

StreamProcessBlock(inBuffer) ==
    /\ calls.updates > 0
    /\ ~calls.processed
    /\ stream.blocks < MaxBlocks
    /\ beamformer' = ProcessBlockOp(beamformer, inBuffer)
    /\ last' = Call("processBlock", beamformer, inBuffer, NoCall)
    /\ calls' = [calls EXCEPT !.processed = TRUE]
    /\ stream' = [stream EXCEPT
                    !.in = [s \in DOMAIN stream.in |->
                               AppendChannel(stream.in[s], inBuffer.data[s], inBuffer.numSamples)]]
    /\ UNCHANGED plugin

StreamGetOutput ==
    /\ calls.processed
    /\ LET r == GetOutputOp(beamformer, ClearedBuffer(beamformer.numMic, BlockSize))
       IN /\ beamformer' = r.bf
          /\ last' = Call("getOutput", beamformer,
                          [numChannels |-> beamformer.numMic, numSamples |-> BlockSize], r.dst)
          /\ stream' = [stream EXCEPT
                          !.blocks = @ + 1,
                          !.out = [m \in DOMAIN stream.out |->
                                      AppendChannel(stream.out[m], r.dst.data[m], BlockSize)]]
    /\ calls' = [calls EXCEPT !.processed = FALSE]
    /\ UNCHANGED plugin

NextStream ==
    \/ \E params \in [0..(NUM_SOURCES - 1) -> BeamParameters] : StreamSetParams(params)
    \/ \E inBuffer \in StreamBuffers(BlockSize) : StreamProcessBlock(inBuffer)
    \/ StreamGetOutput

SpecStream == Init /\ [][NextStream]_vars

\* ---------------------------------------------------------------- blocks of any length
\* As the stream of blocks, with every block of a length the host chooses,
\* from none to maximumExpectedSamplesPerBlock samples, and fetched with a
\* destination of the same length; every source sounds on every sample.
Ones(n) == [i \in 0..(n - 1) |-> 1]
BlockBuffers(n) ==
    {AudioBuffer(NUM_SOURCES, n, [s \in 0..(NUM_SOURCES - 1) |-> Ones(n)])}

BlockGetOutput ==
    /\ calls.processed
    /\ LET n == last.args.numSamples
           r == GetOutputOp(beamformer, ClearedBuffer(beamformer.numMic, n))
       IN /\ beamformer' = r.bf
          /\ last' = Call("getOutput", beamformer,
                          [numChannels |-> beamformer.numMic, numSamples |-> n], r.dst)
          /\ stream' = [stream EXCEPT
                          !.blocks = @ + 1,
                          !.out = [m \in DOMAIN stream.out |->
                                      AppendChannel(stream.out[m], r.dst.data[m], n)]]
    /\ calls' = [calls EXCEPT !.processed = FALSE]
    /\ UNCHANGED plugin

NextBlocks ==
    \/ \E params \in [0..(NUM_SOURCES - 1) -> BeamParameters] : StreamSetParams(params)
    \/ \E n \in 0..BlockSize : \E inBuffer \in BlockBuffers(n) : StreamProcessBlock(inBuffer)
    \/ BlockGetOutput

SpecBlocks == Init /\ [][NextBlocks]_vars

\* ---------------------------------------------------------------- EstickSimAudioProcessor
\* the bus layout of the constructor: one stereo input, four output buses
\* of one eStick each
TotalNumInputChannels == 2
TotalNumOutputChannels == 4 * MicsPerStick
\* the channels of the buffer the host passes to processBlock
HostBufferChannels ==
    IF TotalNumInputChannels > TotalNumOutputChannels
    THEN TotalNumInputChannels ELSE TotalNumOutputChannels

\* the sample rate the host announces, and the members before the first
\* prepareToPlay
DefaultSampleRate == Min(1, 2)
HostSampleRates == SampleRates \ {DefaultSampleRate}
DefaultSamplesPerBlock == 2 * BlockSize

\* the values of the parameters the model moves: the cut frequency at its
\* minimum and at its default, each mute on and off, the configuration;
\* steer and level stay at their defaults
HpfFreqs == {20, 250}
DefaultParameters ==
    [config |-> "ULA_1ESTICK",
     hpf |-> 250,
     steerX |-> [s \in 0..(NUM_SOURCES - 1) |-> IF s = 0 THEN 0 - 1 ELSE 0],
     steerY |-> [s \in 0..(NUM_SOURCES - 1) |-> 0],
     level |-> [s \in 0..(NUM_SOURCES - 1) |-> 0],
     mute |-> [s \in 0..(NUM_SOURCES - 1) |-> FALSE]]

\* the changes of a parameter that is not the configuration
ParameterChanges(params) ==
    {[id |-> "hpf", srcIdx |-> 0, value |-> f] : f \in HpfFreqs \ {params.hpf}}
    \cup {[id |-> "mute", srcIdx |-> s, value |-> ~params.mute[s]] : s \in 0..(NUM_SOURCES - 1)}

\* the store of a new value into the parameter's atomic
Store(params, change) ==
    CASE change.id = "config" -> [params EXCEPT !.config = change.value]
      [] change.id = "hpf" -> [params EXCEPT !.hpf = change.value]
      [] change.id = "mute" -> [params EXCEPT !.mute[change.srcIdx] = change.value]

\* juce::IIRCoefficients(): all zero
NoCoefficients == [c0 |-> 0, c1 |-> 0, c2 |-> 0, c4 |-> 0, c5 |-> 0]

\* juce::IIRCoefficients::makeHighPass: a filter that rejects a constant
\* input, of higher order for the lower cut frequency (integer taps, no
\* feedback)
MakeHighPass(sampleRate, frequency) ==
    IF frequency >= 250
    THEN [c0 |-> 1, c1 |-> 0 - 1, c2 |-> 0, c4 |-> 0, c5 |-> 0]
    ELSE [c0 |-> 1, c1 |-> 0 - 2, c2 |-> 1, c4 |-> 0, c5 |-> 0]

\* juce::IIRFilter(): passes the samples through until it is given
\* coefficients
IIRFilterNew == [active |-> FALSE, coefficients |-> NoCoefficients, v1 |-> 0, v2 |-> 0]

\* juce::IIRFilter::setCoefficients: the state v1, v2 is kept
SetCoefficients(filter, coefficients) ==
    [filter EXCEPT !.coefficients = coefficients, !.active = TRUE]

RECURSIVE ProcessSamples(_, _, _, _)
\* juce::IIRFilter::processSamples on the samples i..n-1 of ch, in place
ProcessSamples(filter, ch, i, n) ==
    IF i >= n \/ ~filter.active THEN [filter |-> filter, samples |-> ch]
    ELSE LET c == filter.coefficients
             x == ch[i]
             out == c.c0 * x + filter.v1
         IN ProcessSamples([filter EXCEPT !.v1 = c.c1 * x - c.c4 * out + filter.v2,
                                          !.v2 = c.c2 * x - c.c5 * out],
                           [ch EXCEPT ![i] = out], i + 1, n)

\* juce::Decibels::decibelsToGain for the levels of the model
DecibelsToGain(decibels) == Pow(10, decibels \div 20)

\* the gain loop body that applies the gain whatever the mute parameter is
GainOnly(ch, n, mute, level) ==
    [i \in 0..(n - 1) |-> ch[i] * DecibelsToGain(level)]

\* the body of the gain loop for one source channel: cleared if the source
\* is muted, else multiplied by the gain of its level
MuteOrGain(ch, n, mute, level) ==
    IF mute THEN ZeroChannel(n)
    ELSE [i \in 0..(n - 1) |-> ch[i] * DecibelsToGain(level)]

\* (bool) x converted back to float for the comparison
BoolAsFloat(x) == IF x /= 0 THEN 1 ELSE 0

\* the condition of the coefficient renewal
RenewHpf(p, params) == p.prevHpfFreq /= BoolAsFloat(params.hpf)

\* the load update factor: 1 - exp(-(block duration) / loadTimeConst)
LoadAlpha(sampleRate, samplesPerBlock) ==
    [num |-> IF sampleRate = 1 THEN 2 ELSE 1, den |-> AlphaDen]

\* the measured load of one callback, in units of 1/TapUnit
MeasuredLoad == TapUnit

Free == "free"

\* SpinLock::enter returns once the lock is free
TryEnterAlways(lock) == TRUE
TryEnter(lock) == lock = Free

\* the allocation guard of processBlock
OutOfOrderNever(p) == FALSE
OutOfOrder(p) == ~p.resourcesAllocated

\* EstickSimAudioProcessor::EstickSimAudioProcessor
PluginNew ==
    [processingLock |-> Free,
     resourcesAllocated |-> FALSE,
     sampleRate |-> DefaultSampleRate,
     maximumExpectedSamplesPerBlock |-> DefaultSamplesPerBlock,
     numActiveInputChannels |-> 0,
     numActiveOutputChannels |-> 0,
     sourceGain |-> [s \in 0..(NUM_SOURCES - 1) |-> 0],
     prevHpfFreq |-> 0,
     iirCoeffHPF |-> NoCoefficients,
     iirHPFfilters |-> <<>>,
     beamformerPtr |-> 0,
     load |-> 0,
     loadAlpha |-> [num |-> 1, den |-> 1]]

\* the body of prepareToPlay: the plugin fields and the new engine.  The
\* pointer beamformerPtr numbers the engine instances, 0 being null.
PrepareToPlayOp(p, params, sampleRate_, maximumExpectedSamplesPerBlock_) ==
    LET n == Min(NUM_SOURCES, TotalNumInputChannels)
    IN [proc |-> [p EXCEPT
                    !.sampleRate = sampleRate_,
                    !.maximumExpectedSamplesPerBlock = maximumExpectedSamplesPerBlock_,
                    !.numActiveInputChannels = n,
                    !.numActiveOutputChannels = TotalNumOutputChannels,
                    !.iirHPFfilters = [c \in 0..(n - 1) |-> IIRFilterNew],
                    !.prevHpfFreq = 0,
                    !.beamformerPtr = @ + 1,
                    !.sourceGain = [s \in 0..(NUM_SOURCES - 1) |-> params.level[s]],
                    !.resourcesAllocated = TRUE,
                    !.loadAlpha = LoadAlpha(sampleRate_, maximumExpectedSamplesPerBlock_)],
        bf |-> BeamformerNew(NUM_SOURCES, params.config, sampleRate_,
                             maximumExpectedSamplesPerBlock_)]

\* the body of releaseResources
ReleaseResourcesOp(p) ==
    [p EXCEPT !.resourcesAllocated = FALSE, !.iirHPFfilters = <<>>, !.beamformerPtr = 0]

\* processBlock from the coefficient renewal to the high-pass filters: the
\* plugin fields and the buffer after them
InputStage(p, params, buffer) ==
    LET renew == RenewHpf(p, params)
        coeff == IF renew THEN MakeHighPass(p.sampleRate, params.hpf) ELSE p.iirCoeffHPF
        filters == [c \in DOMAIN p.iirHPFfilters |->
                       IF renew THEN SetCoefficients(p.iirHPFfilters[c], coeff)
                       ELSE p.iirHPFfilters[c]]
        gained == [c \in 0..(buffer.numChannels - 1) |->
                      IF c < p.numActiveInputChannels
                      THEN MuteOrGain(buffer.data[c], buffer.numSamples,
                                      params.mute[c], params.level[c])
                      ELSE buffer.data[c]]
        filtered == [c \in 0..(p.numActiveInputChannels - 1) |->
                        ProcessSamples(filters[c], gained[c], 0, buffer.numSamples)]
    IN [proc |-> [p EXCEPT
                    !.iirCoeffHPF = coeff,
                    !.prevHpfFreq = IF renew THEN params.hpf ELSE @,
                    !.sourceGain = [s \in 0..(NUM_SOURCES - 1) |->
                                       IF s < p.numActiveInputChannels /\ ~params.mute[s]
                                       THEN params.level[s] ELSE @[s]],
                    !.iirHPFfilters = [c \in DOMAIN filters |-> filtered[c].filter]],
        buffer |-> [buffer EXCEPT !.data =
                       [c \in 0..(buffer.numChannels - 1) |->
                           IF c < p.numActiveInputChannels THEN filtered[c].samples
                           ELSE gained[c]]],
        renewed |-> renew,
        filters |-> filters]

\* the parameters of the beam of a source: beamDoaX = -steerX
BeamOf(params, srcIdx) ==
    [doaX |-> 0 - params.steerX[srcIdx], doaY |-> params.steerY[srcIdx], level |-> 0]

\* the load after one more callback
UpdateLoad(p, curLoad) ==
    [p EXCEPT !.load = ((p.loadAlpha.den - p.loadAlpha.num) * @
                          + p.loadAlpha.num * curLoad) \div p.loadAlpha.den]

\* the buffers the host passes: a unit impulse on the last sample of the
\* first input channel, the same or silence on the other input channels,
\* silence on the channels that are outputs only
HostChannels(n, c) ==
    IF c = 0 THEN {Impulse(n, n - 1)} ELSE {ZeroChannel(n), Impulse(n, n - 1)}
HostBuffers(n) ==
    {AudioBuffer(HostBufferChannels, n,
                 [c \in 0..(HostBufferChannels - 1) |->
                     IF c < TotalNumInputChannels THEN d[c] ELSE ZeroChannel(n)]) :
        d \in {f \in [0..(TotalNumInputChannels - 1) -> HostChannels(n, 0) \cup HostChannels(n, 1)] :
                  \A c \in 0..(TotalNumInputChannels - 1) : f[c] \in HostChannels(n, c)}}

\* the audio thread between two callbacks
AudioIdle ==
    [pc |-> "idle", callbacks |-> 0, outcome |-> "none",
     buffer |-> ClearedBuffer(0, 0), hostBuffer |-> ClearedBuffer(0, 0),
     srcIdx |-> 0, engine |-> 0, muted |-> {}, renewed |-> FALSE,
     filters |-> <<>>, log |-> <<>>]

\* the message thread between two host calls
MessageIdle == [pc |-> "idle", op |-> "none", args |-> <<>>, calls |-> <<>>]

\* the places of processBlock at which the audio thread holds processingLock,
\* and those past the allocation guard
Locked == {"guard", "input", "params", "engine", "output", "load"}
InCycle == {"input", "params", "engine", "output", "load"}

\* ---------------------------------------------------------------- the plugin under its host
\* The audio thread calls processBlock, block after block.  The message
\* thread calls prepareToPlay and releaseResources and changes parameters,
\* in any order.  A step of a thread is what it does between two points at
\* which the other thread can observe it.
InitPlugin ==
    /\ beamformer = NoEngine
    /\ last = NoCall
    /\ calls = [updates |-> 0, processed |-> FALSE, delivered |-> FALSE, faulted |-> FALSE]
    /\ stream = NoStream
    /\ proc = PluginNew
    /\ parameters = DefaultParameters
    /\ audio = AudioIdle
    /\ message = MessageIdle

\* the host calls processBlock(buffer): startTick is taken
HostProcessBlock(buffer) ==
    /\ audio.pc = "idle"
    /\ audio.callbacks < MaxUpdates
    /\ audio' = [audio EXCEPT !.pc = "lock", !.callbacks = @ + 1, !.outcome = "running",
                              !.buffer = buffer, !.hostBuffer = buffer, !.srcIdx = 0,
                              !.muted = {}, !.renewed = FALSE, !.filters = <<>>,
                              !.log = <<>>]
    /\ UNCHANGED <<beamformer, last, calls, stream, proc, parameters, message>>

\* GenericScopedLock<SpinLock> lock(processingLock)
ProcessBlockLock ==
    /\ audio.pc = "lock"
    /\ TryEnter(proc.processingLock)
    /\ proc' = [proc EXCEPT !.processingLock = "audio"]
    /\ audio' = [audio EXCEPT !.pc = "guard"]
    /\ UNCHANGED <<beamformer, last, calls, stream, parameters, message>>

\* if (!resourcesAllocated) { jassertfalse; return; }
ProcessBlockGuard ==
    /\ audio.pc = "guard"
    /\ IF OutOfOrder(proc)
       THEN /\ audio' = [audio EXCEPT !.pc = "idle", !.outcome = "ignored"]
            /\ proc' = [proc EXCEPT !.processingLock = Free]
       ELSE /\ audio' = [audio EXCEPT !.pc = "input", !.engine = proc.beamformerPtr]
            /\ proc' = proc
    /\ UNCHANGED <<beamformer, last, calls, stream, parameters, message>>

\* the coefficient renewal, the mute and gain loop, the high-pass filters
ProcessBlockInput ==
    /\ audio.pc = "input"
    /\ IF \A c \in 0..(proc.numActiveInputChannels - 1) : c \in DOMAIN proc.iirHPFfilters
       THEN LET r == InputStage(proc, parameters, audio.buffer)
            IN /\ proc' = r.proc
               /\ audio' = [audio EXCEPT
                              !.pc = "params", !.buffer = r.buffer, !.renewed = r.renewed,
                              !.filters = r.filters,
                              !.muted = {s \in 0..(proc.numActiveInputChannels - 1) :
                                            parameters.mute[s]}]
       ELSE /\ audio' = [audio EXCEPT !.pc = "fault"]
            /\ proc' = proc
    /\ UNCHANGED <<beamformer, last, calls, stream, parameters, message>>

\* one turn of the loop over the sources: beamformer->setParams(srcIdx, params)
ProcessBlockSetParams ==
    /\ audio.pc = "params"
    /\ IF beamformer = NoEngine
       THEN /\ audio' = [audio EXCEPT !.pc = "fault"]
            /\ UNCHANGED <<beamformer, last>>
       ELSE LET params == BeamOf(parameters, audio.srcIdx)
            IN /\ beamformer' = SetParamsOp(beamformer, audio.srcIdx, params)
               /\ last' = Call("setParams", beamformer,
                               [srcIdx |-> audio.srcIdx, params |-> params], NoCall)
               /\ audio' = [audio EXCEPT
                              !.srcIdx = @ + 1,
                              !.pc = IF audio.srcIdx + 1 < NUM_SOURCES
                                     THEN "params" ELSE "engine",
                              !.log = Append(@, <<"setParams", audio.srcIdx>>)]
    /\ UNCHANGED <<calls, stream, proc, parameters, message>>

\* the callback that goes on to the output without calling the engine
ProcessBlockEngineSkipped ==
    /\ audio.pc = "engine"
    /\ audio' = [audio EXCEPT !.pc = "output"]
    /\ UNCHANGED <<beamformer, last, calls, stream, proc, parameters, message>>

\* beamformer->processBlock(buffer)
ProcessBlockEngine ==
    /\ audio.pc = "engine"
    /\ IF beamformer = NoEngine
       THEN /\ audio' = [audio EXCEPT !.pc = "fault"]
            /\ UNCHANGED <<beamformer, last>>
       ELSE /\ beamformer' = ProcessBlockOp(beamformer, audio.buffer)
            /\ last' = Call("processBlock", beamformer, audio.buffer, NoCall)
            /\ audio' = [audio EXCEPT !.pc = "output",
                                      !.log = Append(@, <<"processBlock">>)]
    /\ UNCHANGED <<calls, stream, proc, parameters, message>>

\* buffer.clear(); beamformer->getOutput(buffer)
ProcessBlockOutput ==
    /\ audio.pc = "output"
    /\ IF beamformer = NoEngine
       THEN /\ audio' = [audio EXCEPT !.pc = "fault"]
            /\ UNCHANGED <<beamformer, last>>
       ELSE LET r == GetOutputOp(beamformer,
                                 ClearedBuffer(audio.buffer.numChannels,
                                               audio.buffer.numSamples))
            IN /\ beamformer' = r.bf
               /\ last' = Call("getOutput", beamformer,
                               [numChannels |-> audio.buffer.numChannels,
                                numSamples |-> audio.buffer.numSamples], r.dst)
               /\ audio' = [audio EXCEPT !.pc = "load", !.buffer = r.dst,
                                         !.log = Append(Append(@, <<"clear">>),
                                                        <<"getOutput">>)]
    /\ UNCHANGED <<calls, stream, proc, parameters, message>>

\* the load update under loadLock, and the return that leaves processingLock
ProcessBlockReturn ==
    /\ audio.pc = "load"
    /\ proc' = [UpdateLoad(proc, MeasuredLoad) EXCEPT !.processingLock = Free]
    /\ audio' = [audio EXCEPT !.pc = "idle", !.outcome = "processed"]
    /\ UNCHANGED <<beamformer, last, calls, stream, parameters, message>>

\* the host calls prepareToPlay(sampleRate_, maximumExpectedSamplesPerBlock_)
HostPrepareToPlay(sampleRate_, maximumExpectedSamplesPerBlock_) ==
    /\ message.pc = "idle"
    /\ Len(message.calls) < MaxHostCalls
    /\ message' = [pc |-> "lock", op |-> "prepareToPlay",
                   args |-> <<sampleRate_, maximumExpectedSamplesPerBlock_>>,
                   calls |-> Append(message.calls, "prepareToPlay")]
    /\ UNCHANGED <<beamformer, last, calls, stream, proc, parameters, audio>>

\* the host calls releaseResources()
HostReleaseResources ==
    /\ message.pc = "idle"
    /\ Len(message.calls) < MaxHostCalls
    /\ message' = [pc |-> "lock", op |-> "releaseResources", args |-> <<>>,
                   calls |-> Append(message.calls, "releaseResources")]
    /\ UNCHANGED <<beamformer, last, calls, stream, proc, parameters, audio>>

\* a parameter other than the configuration gets a new value: no listener
SetParameter(change) ==
    /\ message.pc = "idle"
    /\ Len(message.calls) < MaxHostCalls
    /\ parameters' = Store(parameters, change)
    /\ message' = [message EXCEPT !.calls = Append(@, change.id)]
    /\ UNCHANGED <<beamformer, last, calls, stream, proc, audio>>

\* the configuration gets a new value: parameterChanged("config", newValue)
\* calls setMicConfig, which calls prepareToPlay(sampleRate,
\* maximumExpectedSamplesPerBlock) with the members as they are
ParameterChanged(newValue) ==
    /\ message.pc = "idle"
    /\ Len(message.calls) < MaxHostCalls
    /\ newValue /= parameters.config
    /\ parameters' = Store(parameters, [id |-> "config", srcIdx |-> 0, value |-> newValue])
    /\ message' = [pc |-> "lock", op |-> "prepareToPlay",
                   args |-> <<proc.sampleRate, proc.maximumExpectedSamplesPerBlock>>,
                   calls |-> Append(message.calls, "config")]
    /\ UNCHANGED <<beamformer, last, calls, stream, proc, audio>>

\* GenericScopedLock<SpinLock> lock(processingLock) of prepareToPlay and of
\* releaseResources
HostLock ==
    /\ message.pc = "lock"
    /\ TryEnter(proc.processingLock)
    /\ proc' = [proc EXCEPT !.processingLock = "message"]
    /\ message' = [message EXCEPT !.pc = "body"]
    /\ UNCHANGED <<beamformer, last, calls, stream, parameters, audio>>

\* EstickSimAudioProcessor::prepareToPlay under the lock, and its return
PrepareToPlay ==
    /\ message.pc = "body"
    /\ message.op = "prepareToPlay"
    /\ LET r == PrepareToPlayOp(proc, parameters, message.args[1], message.args[2])
       IN /\ proc' = [r.proc EXCEPT !.processingLock = Free]
          /\ beamformer' = r.bf
    /\ message' = [message EXCEPT !.pc = "idle"]
    /\ UNCHANGED <<last, calls, stream, parameters, audio>>

\* EstickSimAudioProcessor::releaseResources under the lock, and its return
ReleaseResources ==
    /\ message.pc = "body"
    /\ message.op = "releaseResources"
    /\ proc' = [ReleaseResourcesOp(proc) EXCEPT !.processingLock = Free]
    /\ beamformer' = NoEngine
    /\ message' = [message EXCEPT !.pc = "idle"]
    /\ UNCHANGED <<last, calls, stream, parameters, audio>>

NextPlugin ==
    \/ \E buffer \in HostBuffers(BlockSize) : HostProcessBlock(buffer)
    \/ ProcessBlockLock
    \/ ProcessBlockGuard
    \/ ProcessBlockInput
    \/ ProcessBlockSetParams
    \/ ProcessBlockEngine
    \/ ProcessBlockOutput
    \/ ProcessBlockReturn
    \/ \E sampleRate_ \in HostSampleRates : HostPrepareToPlay(sampleRate_, BlockSize)
    \/ HostReleaseResources
    \/ \E change \in ParameterChanges(parameters) : SetParameter(change)
    \/ \E newValue \in MicConfigs : ParameterChanged(newValue)
    \/ HostLock
    \/ PrepareToPlay
    \/ ReleaseResources

SpecPlugin == InitPlugin /\ [][NextPlugin]_vars

\* ---------------------------------------------------------------- reference definitions
\* the linear convolution of x[0..n-1] with h[0..l-1], sample i
LinConvAt(x, n, h, l, i) ==
    SumTo([j \in 0..(n - 1) |-> IF i - j >= 0 /\ i - j < l THEN x[j] * h[i - j] ELSE 0], n)

\* the engine as it was before the last call
PreEngine ==
    [beamformer EXCEPT !.firIR = last.firIR, !.firFFT = last.firFFT,
                       !.outBuffer = last.outBuffer]

Mics == 0..(beamformer.numMic - 1)
Sources == 0..(beamformer.numSources - 1)
Taps == 0..(beamformer.firLen - 1)
AccIdx == 0..(beamformer.fft - 1)

\* what the last processBlock added to accumulator channel m, sample i
Added(m, i) == beamformer.outBuffer[m][i] - last.outBuffer[m][i]

\* the input buffer with every channel but that of source s silenced
OnlySource(inBuffer, s) ==
    [inBuffer EXCEPT !.data =
        [c \in 0..(inBuffer.numChannels - 1) |->
            IF c = s THEN inBuffer.data[c] ELSE ZeroChannel(inBuffer.numSamples)]]

\* ---------------------------------------------------------------- claims

\* C2: getOutput requesting k samples, 0 <= k <= accumulator length, writes
\* the first k samples of each delivered microphone channel to dst and
\* leaves that accumulator channel shifted left by k, its last k samples
\* zero, its length unchanged.
C2_ShiftCorrect ==
    last.op = "getOutput" =>
        LET k == last.args.numSamples
            len == beamformer.fft
        IN \A m \in 0..(Min(beamformer.numMic, last.args.numChannels) - 1) :
              /\ DOMAIN last.dst.data[m] = 0..(k - 1)
              /\ \A i \in 0..(k - 1) : last.dst.data[m][i] = last.outBuffer[m][i]
              /\ DOMAIN beamformer.outBuffer[m] = DOMAIN last.outBuffer[m]
              /\ \A i \in 0..(len - 1) :
                    beamformer.outBuffer[m][i] =
                        IF i + k <= len - 1 THEN last.outBuffer[m][i + k] ELSE 0

\* a partial fetch that leaves a non-zero convolution tail behind
C2_Witness ==
    /\ last.op = "getOutput"
    /\ last.args.numChannels >= 1
    /\ last.args.numSamples = BlockSize
    /\ last.outBuffer[0][0] /= 0
    /\ beamformer.outBuffer[0][0] /= 0

\* C3: processBlock adds to microphone channel m the sum over the sources
\* of (input block of s) convolved with (FIR from s to m), and the amount
\* added for two sources is the sum of the amounts added with the other
\* source's input zeroed, from the same accumulator state.
C3_Superposition ==
    last.op = "processBlock" =>
        /\ \A m \in Mics : \A i \in AccIdx :
              Added(m, i) =
                  SumTo([s \in Sources |->
                            LinConvAt(last.args.data[s], last.args.numSamples,
                                      beamformer.firIR[s][m], beamformer.firLen, i)],
                        beamformer.numSources)
        /\ \A m \in Mics : \A i \in AccIdx :
              Added(m, i) =
                  SumTo([s \in Sources |->
                            ProcessBlockOp(PreEngine, OnlySource(last.args, s)).outBuffer[m][i]
                              - last.outBuffer[m][i]],
                        beamformer.numSources)

\* both sources sound, through different non-zero filters, onto the tail
\* that an earlier block left in the accumulator
C3_Witness ==
    /\ last.op = "processBlock"
    /\ \E i \in AccIdx : last.outBuffer[0][i] /= 0
    /\ \A s \in Sources : \E i \in 0..(last.args.numSamples - 1) : last.args.data[s][i] /= 0
    /\ beamformer.firIR[0] /= beamformer.firIR[1]
    /\ \A s \in Sources : \E t \in Taps : beamformer.firIR[s][0][t] /= 0
    /\ \E i \in AccIdx : Added(0, i) /= 0

\* C4: getOutput into a destination of at most numMic channels shifts every
\* microphone channel of the accumulator.
C4_AllChannelsShifted ==
    (last.op = "getOutput" /\ last.args.numChannels <= beamformer.numMic) =>
        \A m \in Mics :
            beamformer.outBuffer[m] =
                ShiftChannel(last.outBuffer[m], beamformer.fft, last.args.numSamples)

\* C5: for every source the spectrum held in firFFT is the transform of the
\* taps held in firIR, and a processBlock convolves with these taps.
C5_SpectrumConsistent ==
    /\ \A s \in Sources : \A m \in Mics :
          LET time == PerformInverse(beamformer.firFFT[s][m], beamformer.fft)
          IN \A i \in AccIdx :
                Decode(time[i]) = IF i < beamformer.firLen THEN beamformer.firIR[s][m][i] ELSE 0
    /\ last.op = "processBlock" =>
          \A m \in Mics : \A i \in AccIdx :
              Added(m, i) =
                  SumTo([s \in Sources |->
                            LinConvAt(last.args.data[s], last.args.numSamples,
                                      last.firIR[s][m], beamformer.firLen, i)],
                        beamformer.numSources)

\* a processBlock right after a setParams that changed the filter it uses
C5_Witness ==
    /\ last.op = "processBlock"
    /\ calls.updates = MaxUpdates
    /\ \E i \in AccIdx : Added(0, i) /= 0
    /\ \E s \in Sources : \E t \in Taps :
          beamformer.firIR[s][0][t] \notin {0, TapUnit}

\* the blend of one tap: new = old + alpha * (computed - old)
Blended(new, old, computed, alpha) ==
    new * alpha.den = old * alpha.den + alpha.num * (computed - old)

\* C8 as stated: after setParams every tap lies strictly between the
\* previous tap and the synthesized tap.
C8_StrictlyBetween ==
    last.op = "setParams" =>
        LET s == last.args.srcIdx IN
        \A m \in Mics : \A t \in Taps :
            LET old == last.firIR[s][m][t]
                new == beamformer.firIR[s][m][t]
                c == ComputedFir(last.args.params, m, beamformer.firLen)[t]
            IN (old < new /\ new < c) \/ (c < new /\ new < old)

\* C8 amended: setParams blends with the alpha fixed at construction,
\* 0 < alpha < 1; every tap of the source becomes old + alpha*(computed-old),
\* strictly between old and computed where they differ and unchanged where
\* they are equal; the other sources' taps are untouched.
C8_Blend ==
    /\ beamformer.alpha = FirUpdateAlpha(beamformer.sampleRate,
                                         beamformer.maximumExpectedSamplesPerBlock)
    /\ 0 < beamformer.alpha.num /\ beamformer.alpha.num < beamformer.alpha.den
    /\ last.op = "setParams" =>
          LET s == last.args.srcIdx IN
          /\ \A m \in Mics : \A t \in Taps :
                LET old == last.firIR[s][m][t]
                    new == beamformer.firIR[s][m][t]
                    c == ComputedFir(last.args.params, m, beamformer.firLen)[t]
                IN /\ Blended(new, old, c, beamformer.alpha)
                   /\ (old < c => old < new /\ new < c)
                   /\ (c < old => c < new /\ new < old)
                   /\ (c = old => new = old)
          /\ \A o \in Sources \ {s} : beamformer.firIR[o] = last.firIR[o]

\* a second setParams on a source: one tap moves towards a new target, one
\* tap whose target equals its value stays
C8_Witness ==
    /\ last.op = "setParams"
    /\ LET s == last.args.srcIdx IN
       /\ \E m \in Mics : \E t \in Taps :
             /\ last.firIR[s][m][t] /= 0
             /\ beamformer.firIR[s][m][t] /= last.firIR[s][m][t]
       /\ \E m \in Mics : \E t \in Taps :
             /\ ComputedFir(last.args.params, m, beamformer.firLen)[t] = last.firIR[s][m][t]
             /\ beamformer.firIR[s][m][t] = last.firIR[s][m][t]

\* the linear convolution of the whole input of source s with the FIR from
\* s to microphone m, at time t (zero before the first sample)
StreamConvAt(s, m, t) ==
    IF t < 0 THEN 0
    ELSE SumTo([j \in 0..(Len(stream.in[s]) - 1) |->
                   IF t - j >= 0 /\ t - j < beamformer.firLen
                   THEN stream.in[s][j + 1] * beamformer.firIR[s][m][t - j] ELSE 0],
               Len(stream.in[s]))

StreamExpected(m, t) ==
    SumTo([s \in Sources |-> StreamConvAt(s, m, t)], beamformer.numSources)

\* C1 as stated: output sample k is the linear convolution of the input
\* history with the FIR at time k - (L - 1), for every delivered k >= L - 1.
C1_LatencyLMinus1 ==
    (stream.blocks > 0 /\ ~calls.processed) =>
        \A m \in Mics : \A k \in (beamformer.firLen - 1)..(Len(stream.out[m]) - 1) :
            stream.out[m][k + 1] = StreamExpected(m, k - (beamformer.firLen - 1))

\* C1 amended: with processBlock and getOutput paired once per block, output
\* sample k of microphone m is the linear convolution of the whole input
\* history with the applied FIRs at time k itself, from the first sample on:
\* the engine adds no latency.
C1_StreamConvolution ==
    (stream.blocks > 0 /\ ~calls.processed) =>
        \A m \in Mics :
            /\ Len(stream.out[m]) = stream.blocks * BlockSize
            /\ \A k \in 0..(Len(stream.out[m]) - 1) :
                  stream.out[m][k + 1] = StreamExpected(m, k)

\* the instance of the claim: a flat FIR of FirLenBound taps on source 0, a
\* unit impulse as the first sample, silence after it: the output is the
\* tap value for FirLenBound samples from sample 0 on, and zero afterwards
C1_Witness ==
    /\ stream.blocks = MaxBlocks
    /\ ~calls.processed
    /\ \A t \in Taps : beamformer.firIR[0][0][t] = beamformer.firIR[0][0][0]
    /\ beamformer.firIR[0][0][0] > 0
    /\ \A j \in 1..Len(stream.in[0]) : stream.in[0][j] = (IF j = 1 THEN 1 ELSE 0)
    /\ \A j \in 1..Len(stream.in[1]) : stream.in[1][j] = 0
    /\ \A k \in 1..Len(stream.out[0]) :
          stream.out[0][k] = (IF k <= beamformer.firLen THEN beamformer.firIR[0][0][0] ELSE 0)
    /\ Len(stream.out[0]) > beamformer.firLen

\* C6: processBlock invoked while resources are not allocated is an ignored
\* no-op: from the guard it returns at once, the engine, the audio buffer, the
\* parameters and every plugin field as they were, the lock free again; an
\* ignored callback has made no engine call, and the audio thread never
\* faults.
C6_IgnoredNoOp ==
    /\ [](/\ audio.pc /= "fault"
          /\ audio.pc \in InCycle => proc.resourcesAllocated
          /\ audio.outcome = "ignored" =>
                (audio.buffer = audio.hostBuffer /\ audio.log = <<>>))
    /\ [][(audio.pc = "guard" /\ ~proc.resourcesAllocated /\ audio' /= audio) =>
             /\ audio'.pc = "idle"
             /\ audio'.outcome = "ignored"
             /\ audio'.buffer = audio.hostBuffer
             /\ beamformer' = beamformer
             /\ last' = last
             /\ parameters' = parameters
             /\ proc' = [proc EXCEPT !.processingLock = Free]]_vars

\* a callback ignored after releaseResources, an earlier one having run
C6_Witness ==
    /\ audio.outcome = "ignored"
    /\ audio.pc = "idle"
    /\ message.calls = <<"prepareToPlay", "releaseResources">>
    /\ message.pc = "idle"
    /\ proc.load > 0
    /\ beamformer = NoEngine
    /\ \E c \in 0..(audio.buffer.numChannels - 1) :
          audio.buffer.data[c] /= ZeroChannel(audio.buffer.numSamples)

\* C7: the engine calls of a process cycle and the construction or
\* destruction of the engine never overlap: while the audio thread is under
\* the lock the message thread is not in the body of prepareToPlay or
\* releaseResources; and from the guard to the return the cycle has the
\* engine it saw at the guard, not null and not replaced.
C7_MutualExclusion ==
    /\ ~(audio.pc \in Locked /\ message.pc = "body")
    /\ audio.pc \in Locked => proc.processingLock = "audio"
    /\ message.pc = "body" => proc.processingLock = "message"
    /\ audio.pc \in InCycle =>
          /\ beamformer /= NoEngine
          /\ proc.beamformerPtr /= 0
          /\ proc.beamformerPtr = audio.engine
    /\ audio.pc /= "fault"

\* the message thread waits with a releaseResources for the cycle that is
\* in the engine
C7_Witness ==
    /\ audio.pc = "engine"
    /\ message.pc = "lock"
    /\ message.op = "releaseResources"
    /\ beamformer /= NoEngine

\* the plugin's callback has just called the engine's processBlock
AfterEngine == audio.pc = "output" /\ last.op = "processBlock"

\* what source s adds to accumulator channel m, sample i, in the last
\* processBlock: its input block convolved with its FIR to m
Contribution(s, m, i) ==
    LinConvAt(last.args.data[s], last.args.numSamples,
              beamformer.firIR[s][m], beamformer.firLen, i)

\* what the sources other than s add
OthersContribution(s, m, i) ==
    SumTo([o \in Sources |-> IF o = s THEN 0 ELSE Contribution(o, m, i)],
          beamformer.numSources)

\* the engine half of C9: a source whose block is all zeros adds nothing
SilentAddsNothing ==
    \A s \in Sources :
        last.args.data[s] = ZeroChannel(last.args.numSamples) =>
            \A m \in Mics : \A i \in AccIdx : Added(m, i) = OthersContribution(s, m, i)

\* C9 as stated: a silent source adds nothing, and a muted source
\* contributes nothing for the block.
C9_MutedContributesNothing ==
    AfterEngine =>
        /\ SilentAddsNothing
        /\ \A s \in audio.muted :
              \A m \in Mics : \A i \in AccIdx : Added(m, i) = OthersContribution(s, m, i)

\* C9 amended: a silent source adds nothing; the channel of a muted source
\* is zeroed before the high-pass filter, so the engine receives for it the
\* filter's response to silence, and the source contributes nothing if the
\* filter's state is zero; the channels of the other sources reach the
\* engine as they do without the mute.
C9_SilentContributesNothing ==
    AfterEngine =>
        LET n == last.args.numSamples IN
        /\ SilentAddsNothing
        /\ \A s \in audio.muted :
              /\ last.args.data[s] =
                    ProcessSamples(audio.filters[s], ZeroChannel(n), 0, n).samples
              /\ (audio.filters[s].v1 = 0 /\ audio.filters[s].v2 = 0) =>
                    \A m \in Mics : \A i \in AccIdx :
                        Added(m, i) = OthersContribution(s, m, i)
        /\ \A s \in (0..(proc.numActiveInputChannels - 1)) \ audio.muted :
              last.args.data[s] =
                  ProcessSamples(audio.filters[s],
                                 GainOnly(audio.hostBuffer.data[s], n, FALSE,
                                          parameters.level[s]),
                                 0, n).samples

\* a muted source whose host channel sounds reaches the engine silent,
\* while the other source adds to the accumulator
C9_Witness ==
    /\ AfterEngine
    /\ \E s \in audio.muted :
          /\ audio.hostBuffer.data[s] /= ZeroChannel(last.args.numSamples)
          /\ last.args.data[s] = ZeroChannel(last.args.numSamples)
          /\ \E o \in Sources \ audio.muted : \E m \in Mics : \E i \in AccIdx :
                Contribution(o, m, i) /= 0
    /\ \E m \in Mics : \E i \in AccIdx : Added(m, i) /= 0

\* the engine calls of one callback that passes the guard, in order
CallbackCalls ==
    [i \in 1..(NUM_SOURCES + 3) |->
        IF i <= NUM_SOURCES THEN <<"setParams", i - 1>>
        ELSE IF i = NUM_SOURCES + 1 THEN <<"processBlock">>
        ELSE IF i = NUM_SOURCES + 2 THEN <<"clear">>
        ELSE <<"getOutput">>]

\* the number of calls a callback has made when it is at a place
CallsMadeAt(pc, srcIdx) ==
    CASE pc = "input" -> 0
      [] pc = "params" -> srcIdx
      [] pc = "engine" -> NUM_SOURCES
      [] pc = "output" -> NUM_SOURCES + 1
      [] pc = "load" -> NUM_SOURCES + 3

\* C11: a callback that passes the guard calls setParams once for each
\* source 0..NUM_SOURCES-1 in order, then processBlock once, then clears the
\* buffer, then calls getOutput once; at every place of the callback the
\* calls made so far are the start of that sequence, a returned callback
\* has made all of them, and getOutput never comes without processBlock
\* before it in the same callback.
C11_CallOrder ==
    /\ audio.pc \in InCycle =>
          audio.log = SubSeq(CallbackCalls, 1, CallsMadeAt(audio.pc, audio.srcIdx))
    /\ audio.outcome = "processed" => audio.log = CallbackCalls
    /\ \A i \in 1..Len(audio.log) :
          audio.log[i] = <<"getOutput">> =>
              \E j \in 1..(i - 1) : audio.log[j] = <<"processBlock">>
    /\ (audio.pc = "load" /\ last.op = "getOutput") =>
          /\ last.args.numSamples = audio.hostBuffer.numSamples
          /\ last.args.numChannels = audio.hostBuffer.numChannels

\* a second callback has made all its calls and returned
C11_Witness ==
    /\ audio.outcome = "processed"
    /\ audio.pc = "idle"
    /\ audio.callbacks = MaxUpdates
    /\ Len(audio.log) = NUM_SOURCES + 3
    /\ last.op = "getOutput"

\* C12: with blocks of any length n up to the construction block size, each
\* processBlock(n) followed by getOutput(n) on all microphone channels:
\* a processBlock writes inside the accumulator (n + L - 1 fits, what is
\* added is the unwrapped convolution, nothing lies at n + L - 1 or beyond);
\* after a getOutput the accumulator is zero from index L - 1 on; and no
\* sample is lost: what was delivered is the convolution of the input so
\* far, what the accumulator keeps is its continuation.
C12_TailFits ==
    /\ (stream.blocks > 0 \/ calls.processed) =>
          beamformer.fft >= beamformer.maximumExpectedSamplesPerBlock + beamformer.firLen - 1
    /\ (last.op = "processBlock" /\ calls.processed) =>
          LET n == last.args.numSamples IN
          /\ n + beamformer.firLen - 1 <= beamformer.fft
          /\ \A m \in Mics : \A i \in AccIdx :
                /\ i >= n + beamformer.firLen - 1 => beamformer.outBuffer[m][i] = 0
                /\ Added(m, i) =
                      SumTo([s \in Sources |->
                                LinConvAt(last.args.data[s], n,
                                          beamformer.firIR[s][m], beamformer.firLen, i)],
                            beamformer.numSources)
    /\ (last.op = "getOutput" /\ stream.blocks > 0) =>
          \A m \in Mics :
              /\ \A i \in AccIdx :
                    /\ i >= beamformer.firLen - 1 => beamformer.outBuffer[m][i] = 0
                    /\ beamformer.outBuffer[m][i] = StreamExpected(m, Len(stream.out[m]) + i)
              /\ Len(stream.out[m]) = Len(stream.in[0])
              /\ \A k \in 0..(Len(stream.out[m]) - 1) :
                    stream.out[m][k + 1] = StreamExpected(m, k)

\* blocks of different lengths have gone through, and the accumulator holds
\* a tail up to index L - 2
C12_Witness ==
    /\ last.op = "getOutput"
    /\ stream.blocks = MaxBlocks
    /\ last.args.numSamples = BlockSize
    /\ Len(stream.out[0]) > BlockSize
    /\ Len(stream.out[0]) < MaxBlocks * BlockSize
    /\ beamformer.outBuffer[0][beamformer.firLen - 2] /= 0
    /\ last.outBuffer[0][BlockSize + beamformer.firLen - 2] /= 0

\* the host's calls of prepareToPlay and releaseResources so far, in order
LifecycleCalls ==
    SelectSeq(message.calls, LAMBDA c : c \in {"prepareToPlay", "releaseResources"})

\* the plugin is between its construction, or a releaseResources that has
\* returned, and the next prepareToPlay of the host
Unprepared ==
    \/ LifecycleCalls = <<>>
    \/ /\ LifecycleCalls[Len(LifecycleCalls)] = "releaseResources"
       /\ ~(message.op = "releaseResources" /\ message.pc \in {"lock", "body"})

\* C13: between construction or a releaseResources and the next
\* prepareToPlay of the host the plugin holds no engine, resourcesAllocated
\* is false and no callback gets past the guard, whatever parameter changes
\* arrive, a change of the configuration included.
C13_NoEngineUntilPrepare ==
    Unprepared =>
        /\ beamformer = NoEngine
        /\ proc.beamformerPtr = 0
        /\ ~proc.resourcesAllocated
        /\ audio.pc \notin InCycle

\* C14: the input stage of a callback renews the high-pass coefficients
\* exactly when the cut frequency differs from the one the previous callback
\* used, kept in prevHpfFreq (0 after prepareToPlay, so the first callback
\* renews); with the cut frequency unchanged there is no renewal.
C14_RenewOnlyOnChange ==
    [][(audio.pc = "input" /\ audio'.pc = "params") =>
          /\ audio'.renewed <=> (proc.prevHpfFreq /= parameters.hpf)
          /\ ~audio'.renewed =>
                /\ proc'.iirCoeffHPF = proc.iirCoeffHPF
                /\ \A c \in DOMAIN proc.iirHPFfilters :
                      proc'.iirHPFfilters[c].coefficients =
                          proc.iirHPFfilters[c].coefficients]_vars

\* C10: a size mismatch is rejected: a processBlock with a block longer than
\* the block size fixed at construction leaves the accumulator unchanged,
\* and a getOutput with a destination longer than the accumulator leaves it
\* unchanged without reading or writing outside its buffers.
C10_MismatchRejected ==
    /\ (last.op = "processBlock"
          /\ last.args.numSamples > beamformer.maximumExpectedSamplesPerBlock)
          => beamformer.outBuffer = last.outBuffer
    /\ (last.op = "getOutput" /\ last.args.numSamples > beamformer.fft)
          => (~calls.faulted /\ beamformer.outBuffer = last.outBuffer)

====
